---- MODULE Spec2Model ----
(***************************************************************************)
(* A model of picobench v0.01 (include/picobench/picobench.hpp): the       *)
(* registry of benchmarks, the runner's scheduling of measurement states,  *)
(* the report aggregation, the two text views and the iteration protocol   *)
(* of picobench::state.                                                    *)
(*                                                                         *)
(* Conventions.  A benchmark_impl object lives in `heap` and is named by   *)
(* its index there (the order of allocation).  A vector or deque is a      *)
(* sequence; an iterator into it is a 1-based index, and end() of a vector *)
(* v is Len(v) + 1.  The user's benchmark procedure is an input: the       *)
(* procedure of the benchmark registered i-th iterates its state with the  *)
(* range-for construct and advances the fake clock by ProcCost(i)          *)
(* nanoseconds in every loop body.                                         *)
(***************************************************************************)
EXTENDS Integers, Sequences, FiniteSets, TLC

(***************************************************************************)
(* Bounds of the model and the sets the inputs are drawn from.             *)
(***************************************************************************)
MaxBench == 2
MaxRuns == 2
MaxIter == 3
MaxOverrun == 1

Null == "nullptr"
SuiteNames == {"X", "Y"}
\* The (iterations, samples) settings a registration chains on its benchmark;
\* an empty list and 0 samples are what a benchmark has when no setter is called.
Settings ==
    { [data |-> <<>>, n |-> 0], [data |-> <<10>>, n |-> 0],
      [data |-> <<2, 2>>, n |-> 2], [data |-> <<10>>, n |-> -1],
      [data |-> <<0>>, n |-> 0] }
DefaultIterChoices == {<<>>}
DefaultSampleChoices == {2}
SeedArgs == {-1, -2, 42}
DeviceSeeds == {7}
ClockStarts == {0, 5}
GarbageIters == {0, 1}
IterArgs == -1..MaxIter
GarbageNsPerOp == {1, 3}

ProcCost(i) == 100 * (2 * i - 1)

(***************************************************************************)
(* Sequence helpers (std::vector / std::deque operations).                 *)
(***************************************************************************)
InsertAt(s, i, e) == SubSeq(s, 1, i - 1) \o <<e>> \o SubSeq(s, i, Len(s))

RemoveAt(s, i) == SubSeq(s, 1, i - 1) \o SubSeq(s, i + 1, Len(s))

RECURSIVE Flatten(_)
Flatten(ss) == IF ss = <<>> THEN <<>> ELSE Head(ss) \o Flatten(Tail(ss))

RECURSIVE SumSeq(_)
SumSeq(s) == IF s = <<>> THEN 0 ELSE Head(s) + SumSeq(Tail(s))

Range(s) == {s[i] : i \in 1..Len(s)}

(***************************************************************************)
(* std::minstd_rand: x' = 48271 * x mod (2^31 - 1), computed with          *)
(* Schrage's decomposition so that no intermediate exceeds 2^31.           *)
(***************************************************************************)
MinstdModulus == 2147483647
MinstdMultiplier == 48271

MinstdNext(x) ==
    LET q == MinstdModulus \div MinstdMultiplier
        r == MinstdModulus % MinstdMultiplier
        t == MinstdMultiplier * (x % q) - r * (x \div q)
    IN  IF t < 0 THEN t + MinstdModulus ELSE t

\* The int seed is converted to the engine's unsigned 64-bit result_type
\* (2^64 is congruent to 4 modulo 2^31 - 1) and reduced; 0 becomes 1.
MinstdSeed(seed) ==
    LET r == seed % MinstdModulus
        w == r - (MinstdModulus - 4)
        v == IF seed >= 0 THEN r ELSE IF w < 0 THEN w + MinstdModulus ELSE w
    IN  IF v = 0 THEN 1 ELSE v

RECURSIVE MinstdIterate(_, _)
MinstdIterate(x, n) == IF n = 0 THEN x ELSE MinstdIterate(MinstdNext(x), n - 1)

VARIABLES
    debug,                      \* PICOBENCH_DEBUG is defined
    suites,                     \* runner::suites(), in iteration order
    current_suite,              \* runner::current_suite()
    heap,                       \* the benchmark_impl objects
    default_state_iterations,   \* runner::_default_state_iterations
    default_samples,            \* runner::_default_samples
    the_time,                   \* fake_time the_time (.now)
    pc,                         \* position of the program
    seed_arg,                   \* run_benchmarks: the random_seed argument
    used_device,                \* run_benchmarks: std::random_device was read
    rnd,                        \* run_benchmarks: state of the generator
    draws,                      \* number of rnd() calls of this run
    benchmarks,                 \* run_benchmarks: vector of all benchmarks
    ib,                         \* initialize loop: index into benchmarks
    ii,                         \* initialize loop: index into state_iterations
    isample,                    \* initialize loop: the sample counter i
    trace,                      \* the units executed by this run, in order
    prev,                       \* the previous run of this process
    runs,                       \* number of run_benchmarks calls so far
    rpt,                        \* the report returned by run_benchmarks
    out,                        \* what the last rendering call wrote
    it_state,                   \* iteration protocol: the state object
    it_counter,                 \* iteration protocol: iterator::_counter
    it_pc,                      \* iteration protocol: position in the range-for
    it_cost,                    \* iteration protocol: ns one loop body takes
    it_events                   \* iteration protocol: what happened, in order

regVars == <<suites, current_suite, heap>>
runnerVars == <<default_state_iterations, default_samples>>
runVars == <<seed_arg, used_device, rnd, draws, benchmarks, ib, ii, isample, trace>>
itVars == <<it_state, it_counter, it_pc, it_cost, it_events>>
vars == <<debug, regVars, runnerVars, the_time, pc, runVars, prev, runs, rpt, out, itVars>>

(***************************************************************************)
(* picobench::state                                                        *)
(***************************************************************************)
\* state::state(int num_iterations)
NewState(num_iterations) == [iterations |-> num_iterations, duration_ns |-> 0, start |-> 0]

\* A variant of StateAsserts that lets a count of 0 pass.
StateAssertsNegative(dbg, num_iterations) == dbg /\ num_iterations < 0

\* _PICOBENCH_ASSERT(_iterations > 0) of the constructor fails: the macro
\* expands to assert in a build with PICOBENCH_DEBUG and to nothing otherwise.
StateAsserts(dbg, num_iterations) == dbg /\ ~(num_iterations > 0)

\* state::start_timer
start_timer(s, now) == [s EXCEPT !.start = now]

\* A variant of stop_timer that forgets the start of the interval.
stop_timer_absolute(s, now) == [s EXCEPT !.duration_ns = now]

\* state::stop_timer
stop_timer(s, now) == [s EXCEPT !.duration_ns = now - s.start]

\* A benchmark procedure of cost k run on state s with the clock at now:
\* begin() starts the timer, the range-for runs s.iterations bodies of k ns
\* each (the protocol itself is modelled step by step below), and the
\* operator!= that ends the loop stops the timer.
ProcClock(s, now, k) == now + k * (IF s.iterations > 0 THEN s.iterations ELSE 0)

RunProc(s, now, k) == stop_timer(start_timer(s, now), ProcClock(s, now, k))

(***************************************************************************)
(* picobench::benchmark and picobench::registry                            *)
(***************************************************************************)
\* benchmark::benchmark / benchmark_impl::benchmark_impl
NewBenchmarkImpl(name, proc) ==
    [name |-> name, proc |-> proc, baseline |-> FALSE,
     state_iterations |-> <<>>, samples |-> 0, own_samples |-> 0,
     states |-> <<>>, istate |-> 0]

\* benchmark::iterations, benchmark::samples, benchmark::baseline
iterations(b, data) == [b EXCEPT !.state_iterations = data]

\* own_samples keeps the argument (0 when samples was never called); the
\* field _samples itself is overwritten by line 534.
samples(b, n) == [b EXCEPT !.samples = n, !.own_samples = n]

baseline(b, flag) == [b EXCEPT !.baseline = flag]

SuiteIndex(ss, name) ==
    IF \E i \in 1..Len(ss) : ss[i].name = name
    THEN CHOOSE i \in 1..Len(ss) : ss[i].name = name
    ELSE 0

\* A variant of EmplaceBack that appends to the first suite of the map.
EmplaceBackFirst(ss, key, b, pos) ==
    IF ss = <<>> THEN <<[name |-> key, list |-> <<b>>]>>
    ELSE [ss EXCEPT ![1].list = Append(@, b)]

\* A variant of EmplaceBack that puts the new benchmark at the front of the
\* suite's collection.
EmplaceFront(ss, key, b, pos) ==
    LET i == SuiteIndex(ss, key)
    IN  IF i = 0
        THEN InsertAt(ss, pos, [name |-> key, list |-> <<b>>])
        ELSE [ss EXCEPT ![i].list = <<b>> \o @]

\* runner::benchmarks_for_current_suite followed by emplace_back(b):
\* suites()[current_suite()] creates the entry when the key is new; where an
\* unordered_map puts a new key in its iteration order is unspecified (pos).
EmplaceBack(ss, key, b, pos) ==
    LET i == SuiteIndex(ss, key)
    IN  IF i = 0
        THEN InsertAt(ss, pos, [name |-> key, list |-> <<b>>])
        ELSE [ss EXCEPT ![i].list = Append(@, b)]

\* The program before main: nothing registered, the runner as constructed
\* (lines 487-490), the statics of lines 644-654 and 726.
StaticInit ==
    /\ debug \in BOOLEAN
    /\ suites = <<>>
    /\ current_suite = Null
    /\ heap = <<>>
    /\ default_state_iterations = <<8, 64, 512, 4096, 8196>>
    /\ default_samples = 1
    /\ pc = "main"
    /\ seed_arg = -1
    /\ used_device = FALSE
    /\ rnd = 1
    /\ draws = 0
    /\ benchmarks = <<>>
    /\ ib = 0
    /\ ii = 0
    /\ isample = 0
    /\ trace = <<>>
    /\ prev = [valid |-> FALSE, seed |-> -1, trace |-> <<>>, defaults_changed |-> FALSE]
    /\ runs = 0
    /\ rpt = <<>>
    /\ out = [view |-> "none", status |-> "ok", rows |-> <<>>]

Init ==
    /\ StaticInit
    /\ the_time = 0
    /\ it_state = NewState(1)
    /\ it_counter = 0
    /\ it_pc = "idle"
    /\ it_cost = 0
    /\ it_events = <<>>

\* registry::set_test_suite (PICOBENCH_SUITE): declared in the header and
\* defined nowhere in it; it makes `name` the current suite.
set_test_suite(name) ==
    /\ pc = "main"
    /\ runs = 0
    /\ Len(heap) < MaxBench
    /\ current_suite' = name
    /\ UNCHANGED <<debug, suites, heap, runnerVars, the_time, pc, runVars, prev, runs,
                   rpt, out, itVars>>

SetTestSuite == \E name \in SuiteNames : set_test_suite(name)

\* registry::new_benchmark (PICOBENCH), followed by the setters chained on
\* the returned reference in the same static initializer.
new_benchmark(data, n, flag, pos) ==
    /\ pc = "main"
    /\ runs = 0
    /\ Len(heap) < MaxBench
    /\ LET id == Len(heap) + 1
           b == baseline(samples(iterations(NewBenchmarkImpl(id, id), data), n), flag)
       IN  /\ heap' = Append(heap, b)
           /\ suites' = EmplaceBack(suites, current_suite, id, pos)
    /\ UNCHANGED <<debug, current_suite, runnerVars, the_time, pc, runVars, prev, runs,
                   rpt, out, itVars>>

NewBenchmark ==
    \E cfg \in Settings, flag \in BOOLEAN, pos \in 1..(Len(suites) + 1) :
        new_benchmark(cfg.data, cfg.n, flag, pos)

\* runner::set_default_state_iterations
set_default_state_iterations(data) ==
    /\ pc \in {"main", "done"}
    /\ runs < MaxRuns
    /\ default_state_iterations' = data
    /\ prev' = IF pc = "done" /\ data # default_state_iterations
               THEN [prev EXCEPT !.defaults_changed = TRUE]
               ELSE prev
    /\ UNCHANGED <<debug, regVars, default_samples, the_time, pc, runVars, runs,
                   rpt, out, itVars>>

SetDefaultStateIterations ==
    \E data \in DefaultIterChoices : set_default_state_iterations(data)

\* runner::set_default_samples
set_default_samples(n) ==
    /\ pc \in {"main", "done"}
    /\ runs < MaxRuns
    /\ default_samples' = n
    /\ prev' = IF pc = "done" /\ n # default_samples
               THEN [prev EXCEPT !.defaults_changed = TRUE]
               ELSE prev
    /\ UNCHANGED <<debug, regVars, default_state_iterations, the_time, pc, runVars,
                   runs, rpt, out, itVars>>

SetDefaultSamples == \E n \in DefaultSampleChoices : set_default_samples(n)

(***************************************************************************)
(* runner::run_benchmarks                                                  *)
(***************************************************************************)
\* The state_iterations reference of lines 528-531 and 589-592.
StateIterations(b, defaults) ==
    IF b.state_iterations = <<>> THEN defaults ELSE b.state_iterations

\* Lines 509-522 for one suite: a suite none of whose benchmarks is flagged
\* gets its first benchmark flagged.
ResolveBaseline(h, list) ==
    LET found_baseline == \E j \in 1..Len(list) : h[list[j]].baseline
    IN  IF ~found_baseline /\ list # <<>>
        THEN [h EXCEPT ![Head(list)].baseline = TRUE]
        ELSE h

RECURSIVE ResolveBaselines(_, _)
ResolveBaselines(h, ss) ==
    IF ss = <<>> THEN h
    ELSE ResolveBaselines(ResolveBaseline(h, Head(ss).list), Tail(ss))

\* Lines 504-512: the vector of all benchmarks, suite after suite.
AllBenchmarks(ss) == Flatten([i \in 1..Len(ss) |-> ss[i].list])

\* A variant of UsesDevice that treats every negative seed as absent.
UsesDeviceNegative(random_seed) == random_seed < 0

\* Line 494: the seed that stands for "no seed".
UsesDevice(random_seed) == random_seed = -1

\* Lines 494-499: the generator's state after seeding; dev is what
\* std::random_device returns when it is asked.
SeedGenerator(random_seed, dev) ==
    IF UsesDevice(random_seed) THEN MinstdSeed(dev) ELSE MinstdSeed(random_seed)

\* Lines 492-523: seeding, the vector of all benchmarks, baseline resolution.
run_benchmarks(random_seed, dev) ==
    /\ pc \in {"main", "done"}
    /\ runs < MaxRuns
    /\ runs' = runs + 1
    /\ seed_arg' = random_seed
    /\ used_device' = UsesDevice(random_seed)
    /\ rnd' = SeedGenerator(random_seed, dev)
    /\ draws' = 0
    /\ benchmarks' = AllBenchmarks(suites)
    /\ heap' = ResolveBaselines(heap, suites)
    /\ ib' = 1
    /\ ii' = 0
    /\ isample' = 0
    /\ pc' = IF AllBenchmarks(suites) = <<>> THEN "loop" ELSE "init"
    /\ prev' = IF pc = "done"
               THEN [valid |-> TRUE, seed |-> seed_arg, trace |-> trace,
                     defaults_changed |-> prev.defaults_changed]
               ELSE prev
    /\ trace' = <<>>
    /\ rpt' = <<>>
    /\ out' = [view |-> "none", status |-> "ok", rows |-> <<>>]
    /\ UNCHANGED <<debug, suites, current_suite, runnerVars, the_time, itVars>>

RunBenchmarks == \E random_seed \in SeedArgs, dev \in DeviceSeeds : run_benchmarks(random_seed, dev)

\* Lines 526-536: the head of the initialize loop for benchmarks[ib].
InitBenchmark ==
    /\ pc = "init"
    /\ LET b == benchmarks[ib]
       IN  heap' = IF heap[b].samples = 0
                   THEN [heap EXCEPT ![b].samples = default_samples]
                   ELSE heap
    /\ ii' = 1
    /\ isample' = 0
    /\ pc' = "fill"
    /\ UNCHANGED <<debug, suites, current_suite, runnerVars, the_time, seed_arg, used_device,
                   rnd, draws, benchmarks, ib, trace, prev, runs, rpt, out, itVars>>

\* No (iters, i) pair is left in the two loops of lines 539-547.
FillDone(b, defaults) ==
    \/ ii > Len(StateIterations(b, defaults))
    \/ b.samples <= 0

\* A variant of EmplaceState that puts the new state at the end of the queue.
EmplaceStateAtEnd(states, x, iters) == Append(states, NewState(iters))

\* Lines 543-545: emplace a state of iters iterations at rnd() % (size + 1).
EmplaceState(states, x, iters) == InsertAt(states, (x % (Len(states) + 1)) + 1, NewState(iters))

\* Lines 539-547: one pass of the inner loop body; the number is drawn, and
\* the state constructor that emplace calls asserts a positive iteration
\* count in a debug build.
InsertState ==
    /\ pc = "fill"
    /\ LET b == benchmarks[ib]
           list == StateIterations(heap[b], default_state_iterations)
           x == MinstdNext(rnd)
       IN  /\ ~FillDone(heap[b], default_state_iterations)
           /\ rnd' = x
           /\ draws' = draws + 1
           /\ IF StateAsserts(debug, list[ii])
              THEN /\ pc' = "aborted"
                   /\ UNCHANGED <<heap, isample, ii>>
              ELSE /\ pc' = "fill"
                   /\ heap' = [heap EXCEPT ![b].states = EmplaceState(@, x, list[ii])]
                   /\ IF isample + 1 < heap[b].samples
                      THEN /\ isample' = isample + 1
                           /\ ii' = ii
                      ELSE /\ isample' = 0
                           /\ ii' = ii + 1
    /\ UNCHANGED <<debug, suites, current_suite, runnerVars, the_time, seed_arg, used_device,
                   benchmarks, ib, trace, prev, runs, rpt, out, itVars>>

\* Line 549 and the step of the loop of line 526.
FinishBenchmark ==
    /\ pc = "fill"
    /\ LET b == benchmarks[ib]
       IN  /\ FillDone(heap[b], default_state_iterations)
           /\ heap' = [heap EXCEPT ![b].istate = 1]
    /\ ib' = ib + 1
    /\ pc' = IF ib + 1 > Len(benchmarks) THEN "loop" ELSE "init"
    /\ UNCHANGED <<debug, suites, current_suite, runnerVars, the_time, seed_arg, used_device,
                   rnd, draws, benchmarks, ii, isample, trace, prev, runs, rpt, out, itVars>>

\* Line 557: the position in the working set that the next draw picks.
PickIndex(x, size) == (x % size) + 1

\* Lines 555-568: one pass of the interleaving loop on an existing state.
ExecUnit ==
    /\ pc = "loop"
    /\ benchmarks # <<>>
    /\ LET x == MinstdNext(rnd)
           i == PickIndex(x, Len(benchmarks))
           b == benchmarks[i]
           k == heap[b].istate
           s == heap[b].states[k]
       IN  /\ k <= Len(heap[b].states)
           /\ rnd' = x
           /\ draws' = draws + 1
           /\ heap' = [heap EXCEPT ![b].states[k] = RunProc(s, the_time, ProcCost(heap[b].proc)),
                                   ![b].istate = k + 1]
           /\ the_time' = ProcClock(s, the_time, ProcCost(heap[b].proc))
           /\ trace' = Append(trace, [b |-> b, at |-> k, iterations |-> s.iterations])
           /\ benchmarks' = IF k + 1 = Len(heap[b].states) + 1
                            THEN RemoveAt(benchmarks, i)
                            ELSE benchmarks
    /\ UNCHANGED <<debug, suites, current_suite, runnerVars, pc, seed_arg, used_device,
                   ib, ii, isample, prev, runs, rpt, out, itVars>>

\* Lines 555-562 when the picked benchmark's _istate is not before end(): the
\* dereference is undefined.  The process faults, or the procedure runs on
\* whatever lies behind the vector (g iterations) and the cursor moves on,
\* further past end(), so the benchmark is never erased.
ExecPastEnd ==
    /\ pc = "loop"
    /\ benchmarks # <<>>
    /\ LET x == MinstdNext(rnd)
           i == PickIndex(x, Len(benchmarks))
           b == benchmarks[i]
           k == heap[b].istate
       IN  /\ k > Len(heap[b].states)
           /\ \/ /\ pc' = "crashed"
                 /\ UNCHANGED <<rnd, draws, heap, the_time, trace>>
              \/ /\ k <= Len(heap[b].states) + MaxOverrun
                 /\ \E g \in GarbageIters :
                      /\ the_time' = ProcClock(NewState(g), the_time, ProcCost(heap[b].proc))
                      /\ trace' = Append(trace, [b |-> b, at |-> k, iterations |-> g])
                 /\ rnd' = x
                 /\ draws' = draws + 1
                 /\ heap' = [heap EXCEPT ![b].istate = k + 1]
                 /\ pc' = "loop"
    /\ UNCHANGED <<debug, suites, current_suite, runnerVars, seed_arg, used_device,
                   benchmarks, ib, ii, isample, prev, runs, rpt, out, itVars>>

\* Lines 594-610: the data of one benchmark before averaging; every state
\* is added to every entry whose dimension is its iteration count.
RawData(b, defaults) ==
    LET list == StateIterations(b, defaults)
        match(d) == {j \in 1..Len(b.states) : b.states[j].iterations = d}
        dur(d) == [j \in 1..Len(b.states) |->
                     IF b.states[j].iterations = d THEN b.states[j].duration_ns ELSE 0]
    IN  [n \in 1..Len(list) |->
            [dimension |-> list[n], samples |-> Cardinality(match(list[n])),
             total_time_ns |-> SumSeq(dur(list[n]))]]

\* Lines 613-617: average-out samples.
AverageOut(data) ==
    [n \in 1..Len(data) |-> [data[n] EXCEPT !.total_time_ns = @ \div data[n].samples]]

\* Line 615, _PICOBENCH_ASSERT(d.samples == b->_samples), over the whole registry.
SamplesAsserted(h, defaults) ==
    \A b \in 1..Len(h) :
        LET data == RawData(h[b], defaults)
        IN  \A n \in 1..Len(data) : data[n].samples = h[b].samples

\* Line 616 divides by d.samples.
DividesByZero(h, defaults) ==
    \E b \in 1..Len(h) :
        LET data == RawData(h[b], defaults)
        IN  \E n \in 1..Len(data) : data[n].samples = 0

\* A variant of MakeReport that resizes the report to one suite more than
\* the registry has.
MakeReportPadded(ss, h, defaults) ==
    [i \in 1..(Len(ss) + 1) |->
        IF i > Len(ss) THEN [name |-> Null, benchmarks |-> <<>>]
        ELSE
        [name |-> ss[i].name,
         benchmarks |->
            [j \in 1..Len(ss[i].list) |->
                LET b == h[ss[i].list[j]]
                IN  [name |-> b.name, is_baseline |-> b.baseline,
                     data |-> AverageOut(RawData(b, defaults))]]]]

\* Lines 571-625: the report.
MakeReport(ss, h, defaults) ==
    [i \in 1..Len(ss) |->
        [name |-> ss[i].name,
         benchmarks |->
            [j \in 1..Len(ss[i].list) |->
                LET b == h[ss[i].list[j]]
                IN  [name |-> b.name, is_baseline |-> b.baseline,
                     data |-> AverageOut(RawData(b, defaults))]]]]

\* Lines 570-625, reached when the working set is empty.
GenerateReport ==
    /\ pc = "loop"
    /\ benchmarks = <<>>
    /\ IF debug /\ ~SamplesAsserted(heap, default_state_iterations)
       THEN /\ pc' = "aborted"
            /\ rpt' = rpt
       ELSE IF DividesByZero(heap, default_state_iterations)
       THEN /\ pc' = "crashed"
            /\ rpt' = rpt
       ELSE /\ pc' = "done"
            /\ rpt' = MakeReport(suites, heap, default_state_iterations)
    /\ UNCHANGED <<debug, regVars, runnerVars, the_time, runVars, prev, runs, out, itVars>>

(***************************************************************************)
(* picobench::report: the two text views                                   *)
(***************************************************************************)
RECURSIVE SortedSeq(_)
SortedSeq(S) ==
    IF S = {} THEN <<>>
    ELSE LET m == CHOOSE x \in S : \A y \in S : x <= y
         IN  <<m>> \o SortedSeq(S \ {m})

\* What `out << fixed << setprecision(3) << double(a) / double(b)` prints,
\* in thousandths, for a >= 0 and b > 0: three decimals by long division,
\* rounded on the fourth.
Fixed3(a, b) ==
    LET q0 == a \div b
        r0 == a % b
        d1 == (r0 * 10) \div b
        r1 == (r0 * 10) % b
        d2 == (r1 * 10) \div b
        r2 == (r1 * 10) % b
        d3 == (r2 * 10) \div b
        r3 == (r2 * 10) % b
    IN  ((q0 * 10 + d1) * 10 + d2) * 10 + d3 + (IF 2 * r3 >= b THEN 1 ELSE 0)

\* The ratio column: "-", "???", a number, or what a division by 0.0 prints.
Placeholder == [kind |-> "-", milli |-> 0]

Unknown == [kind |-> "???", milli |-> 0]

Ratio(a, b) ==
    IF b = 0 THEN [kind |-> "nonfinite", milli |-> 0]
    ELSE [kind |-> "number", milli |-> Fixed3(a, b)]

\* The first element flagged is_baseline (lines 312-320 and 377-385); 0 is nullptr.
FirstBaseline(list) ==
    IF \E j \in 1..Len(list) : list[j].is_baseline
    THEN CHOOSE j \in 1..Len(list) :
            /\ list[j].is_baseline
            /\ \A l \in 1..(j - 1) : ~list[l].is_baseline
    ELSE 0

\* report::get_problem_space_view: a map ordered by dimension; each entry
\* lists, benchmark after benchmark, the data of that dimension.
get_problem_space_view(s) ==
    LET dims == UNION {{s.benchmarks[j].data[n].dimension : n \in 1..Len(s.benchmarks[j].data)} :
                        j \in 1..Len(s.benchmarks)}
        order == SortedSeq(dims)
        of(bm, dim) ==
            LET hit == SelectSeq(bm.data, LAMBDA d : d.dimension = dim)
            IN  [n \in 1..Len(hit) |->
                    [name |-> bm.name, is_baseline |-> bm.is_baseline,
                     total_time_ns |-> hit[n].total_time_ns]]
    IN  [i \in 1..Len(order) |->
            [first |-> order[i],
             second |-> Flatten([j \in 1..Len(s.benchmarks) |-> of(s.benchmarks[j], order[i])])]]

\* A variant of DetailedRows that takes the first benchmark of the entry for
\* the baseline.
DetailedRowsFirst(suite_name, ps) ==
    [j \in 1..Len(ps.second) |->
        LET bm == ps.second[j]
        IN  [suite |-> suite_name, name |-> bm.name, star |-> bm.is_baseline,
             dim |-> ps.first,
             total_ms |-> Fixed3(bm.total_time_ns, 1000000),
             ns_op |-> bm.total_time_ns \div ps.first,
             ratio |-> IF j = 1 THEN Placeholder
                       ELSE Ratio(bm.total_time_ns, ps.second[1].total_time_ns)]]

\* Lines 310-355: the rows of one entry of the problem space view.
DetailedRows(suite_name, ps) ==
    LET base == FirstBaseline(ps.second)
    IN  [j \in 1..Len(ps.second) |->
            LET bm == ps.second[j]
            IN  [suite |-> suite_name, name |-> bm.name, star |-> bm.is_baseline,
                 dim |-> ps.first,
                 total_ms |-> Fixed3(bm.total_time_ns, 1000000),
                 ns_op |-> bm.total_time_ns \div ps.first,
                 ratio |-> IF base = j THEN Placeholder
                           ELSE IF base # 0
                                THEN Ratio(bm.total_time_ns, ps.second[base].total_time_ns)
                                ELSE Unknown]]

\* Line 336 divides by the dimension.
DetailedFaults(r) ==
    \E i \in 1..Len(r) : \E j \in 1..Len(r[i].benchmarks) :
        \E n \in 1..Len(r[i].benchmarks[j].data) : r[i].benchmarks[j].data[n].dimension = 0

\* report::to_text (the ops/second column is left out).
DetailedText(r) ==
    IF DetailedFaults(r) THEN [view |-> "detailed", status |-> "crashed", rows |-> <<>>]
    ELSE [view |-> "detailed", status |-> "ok",
          rows |-> Flatten([i \in 1..Len(r) |->
                      LET view == get_problem_space_view(r[i])
                      IN  Flatten([n \in 1..Len(view) |-> DetailedRows(r[i].name, view[n])])])]

to_text ==
    /\ pc = "done"
    /\ out' = DetailedText(rpt)
    /\ UNCHANGED <<debug, regVars, runnerVars, the_time, pc, runVars, prev, runs, rpt, itVars>>

\* Lines 387-393 and 407-413: the sums over the data of one benchmark.
TotalTime(bm) == SumSeq([n \in 1..Len(bm.data) |-> bm.data[n].total_time_ns])

TotalIterations(bm) == SumSeq([n \in 1..Len(bm.data) |-> bm.data[n].dimension])

\* Lines 396-430: the rows of one suite; base is the baseline's position and
\* base_ns its ns/op.
ConciseRows(s, base, base_ns) ==
    [j \in 1..Len(s.benchmarks) |->
        LET bm == s.benchmarks[j]
            ns_per_op == TotalTime(bm) \div TotalIterations(bm)
        IN  [suite |-> s.name, name |-> bm.name, star |-> bm.is_baseline,
             ns_op |-> ns_per_op,
             ratio |-> IF j = base THEN Placeholder ELSE Ratio(ns_per_op, base_ns)]]

\* report::to_text_concise from suite i on.  With no baseline in a suite,
\* a debug build stops at the assertion of line 386; another build
\* dereferences the null pointer at line 389, which is undefined: the
\* process faults (fault) or goes on with whatever it reads (g ns/op).
\* Lines 394 and 414 divide by the summed dimensions.
\* A variant of AssertsBaseline with the assertion compiled out.
AssertsNothing(dbg, base) == FALSE

\* Line 386, _PICOBENCH_ASSERT(baseline), fails.
AssertsBaseline(dbg, base) == dbg /\ base = 0

RECURSIVE ConciseFrom(_, _, _, _, _)
ConciseFrom(r, i, dbg, fault, g) ==
    IF i > Len(r) THEN [status |-> "ok", rows |-> <<>>]
    ELSE LET s == r[i]
             base == FirstBaseline(s.benchmarks)
         IN  IF AssertsBaseline(dbg, base) THEN [status |-> "assert", rows |-> <<>>]
             ELSE IF base = 0 /\ fault THEN [status |-> "crashed", rows |-> <<>>]
             ELSE IF \/ base # 0 /\ TotalIterations(s.benchmarks[base]) = 0
                     \/ \E j \in 1..Len(s.benchmarks) : TotalIterations(s.benchmarks[j]) = 0
                  THEN [status |-> "crashed", rows |-> <<>>]
             ELSE LET base_ns == IF base = 0 THEN g
                                 ELSE TotalTime(s.benchmarks[base])
                                        \div TotalIterations(s.benchmarks[base])
                      rest == ConciseFrom(r, i + 1, dbg, fault, g)
                  IN  [status |-> rest.status,
                       rows |-> ConciseRows(s, base, base_ns) \o rest.rows]

ConciseText(r, dbg, fault, g) ==
    LET res == ConciseFrom(r, 1, dbg, fault, g)
    IN  [view |-> "concise", status |-> res.status, rows |-> res.rows]

to_text_concise ==
    /\ pc = "done"
    /\ \E fault \in BOOLEAN, g \in GarbageNsPerOp : out' = ConciseText(rpt, debug, fault, g)
    /\ UNCHANGED <<debug, regVars, runnerVars, the_time, pc, runVars, prev, runs, rpt, itVars>>

\* The report is a struct of public members that run_benchmarks returns by
\* value: its owner clears the is_baseline members (line 282) of suite i.
Unflag(s) == [s EXCEPT !.benchmarks = [j \in 1..Len(@) |-> [@[j] EXCEPT !.is_baseline = FALSE]]]

ClearBaseline ==
    /\ pc = "done"
    /\ out.view = "none"
    /\ \E i \in 1..Len(rpt) :
          /\ FirstBaseline(rpt[i].benchmarks) # 0
          /\ rpt' = [rpt EXCEPT ![i] = Unflag(@)]
    /\ UNCHANGED <<debug, regVars, runnerVars, the_time, pc, runVars, prev, runs, out, itVars>>

(***************************************************************************)
(* The iteration protocol: `for (auto _ : state) body;` is                 *)
(*   it = state.begin(); while (it != state.end()) { *it; body; ++it; }    *)
(* The body is the user's: it advances the fake clock by it_cost.          *)
(***************************************************************************)
\* A variant of operator!= that ends the loop one iteration early.
iterator_neq_early(counter) == counter > 1

\* iterator::operator!= returns true while the counter is not zero.
iterator_neq(counter) == counter # 0

\* A state of n iterations is about to be constructed and then iterated by
\* a procedure, at some time of the fake clock.
IterInit ==
    /\ StaticInit
    /\ the_time \in ClockStarts
    /\ \E n \in IterArgs : it_state = NewState(n)
    /\ it_counter = 0
    /\ it_pc = "new"
    /\ it_cost \in {ProcCost(i) : i \in 1..MaxBench}
    /\ it_events = <<>>

mainVars == <<debug, regVars, runnerVars, pc, runVars, prev, runs, rpt, out>>

\* state::state(int num_iterations) with its assertion.
Construct ==
    /\ it_pc = "new"
    /\ it_pc' = IF StateAsserts(debug, it_state.iterations) THEN "aborted" ELSE "call"
    /\ UNCHANGED <<mainVars, the_time, it_state, it_counter, it_cost, it_events>>

\* state::begin: start_timer, then iterator(this), which asserts a positive
\* counter in a debug build.
Begin ==
    /\ it_pc = "call"
    /\ it_state' = start_timer(it_state, the_time)
    /\ it_counter' = it_state.iterations
    /\ it_events' = Append(it_events, "start_timer")
    /\ it_pc' = IF debug /\ it_state.iterations <= 0 THEN "aborted" ELSE "test"
    /\ UNCHANGED <<mainVars, the_time, it_cost>>

\* iterator::operator!=: true, or stop_timer and false.
NotEqual ==
    /\ it_pc = "test"
    /\ IF iterator_neq(it_counter)
       THEN /\ it_pc' = "body"
            /\ UNCHANGED <<it_state, it_events>>
       ELSE /\ it_state' = stop_timer(it_state, the_time)
            /\ it_events' = Append(it_events, "stop_timer")
            /\ it_pc' = "exit"
    /\ UNCHANGED <<mainVars, the_time, it_cost, it_counter>>

\* iterator::operator* and the loop body.
Body ==
    /\ it_pc = "body"
    /\ it_counter >= -MaxIter
    /\ the_time' = the_time + it_cost
    /\ it_events' = Append(it_events, "body")
    /\ it_pc' = "incr"
    /\ UNCHANGED <<mainVars, it_state, it_cost, it_counter>>

\* iterator::operator++, which asserts a positive counter in a debug build.
Increment ==
    /\ it_pc = "incr"
    /\ it_counter' = it_counter - 1
    /\ it_pc' = IF debug /\ it_counter <= 0 THEN "aborted" ELSE "test"
    /\ UNCHANGED <<mainVars, the_time, it_state, it_cost, it_events>>

IterNext ==
    \/ Construct
    \/ Begin
    \/ NotEqual
    \/ Body
    \/ Increment

SpecIter == IterInit /\ [][IterNext]_vars

Next ==
    \/ SetTestSuite
    \/ NewBenchmark
    \/ SetDefaultStateIterations
    \/ SetDefaultSamples
    \/ RunBenchmarks
    \/ InitBenchmark
    \/ InsertState
    \/ FinishBenchmark
    \/ ExecUnit
    \/ ExecPastEnd
    \/ GenerateReport
    \/ to_text
    \/ to_text_concise
    \/ ClearBaseline

Spec == Init /\ [][Next]_vars

\* The program and, beside it, the procedure's loop over one state.
MainNext == it_pc = "idle" /\ Next

SpecAll == (Init \/ IterInit) /\ [][MainNext \/ IterNext]_vars

(***************************************************************************)
(* Properties                                                              *)
(***************************************************************************)
\* Number of units of the trace tr that ran benchmark b on w iterations.
Count(tr, b, w) == Cardinality({n \in 1..Len(tr) : tr[n].b = b /\ tr[n].iterations = w})

\* Number of entries of list that equal w.
Mult(list, w) == Cardinality({n \in 1..Len(list) : list[n] = w})

\* The trace without the positions: which benchmark ran, on how many iterations.
Units(tr) == [n \in 1..Len(tr) |-> [b |-> tr[n].b, iterations |-> tr[n].iterations]]

\* The benchmark of the j-th entry of suite i of the report.
Owner(i, j) == heap[suites[i].list[j]]

\* C1 (completeness): when run_benchmarks has returned, every benchmark's
\* procedure has been invoked, for each workload size w of its effective list,
\* exactly samples times per entry of the list that equals w on a state of w
\* iterations, and no state was passed to a procedure twice.
Completeness ==
    pc = "done" =>
        /\ \A b \in 1..Len(heap) :
              LET list == StateIterations(heap[b], default_state_iterations)
              IN  \A w \in Range(list) :
                     Count(trace, b, w) = heap[b].samples * Mult(list, w)
        /\ \A m, n \in 1..Len(trace) :
              (trace[m].b = trace[n].b /\ trace[m].at = trace[n].at) => m = n

\* Flagged benchmarks of a suite's list in the heap h.
Flagged(h, list) == {j \in 1..Len(list) : h[list[j]].baseline}

\* C2 (baseline uniqueness): the baseline resolution of run_benchmarks leaves
\* every suite with exactly one flagged benchmark, whatever was flagged
\* before, and with the first-registered one when none was.
BaselineUniqueness ==
    [][(pc \in {"main", "done"} /\ pc' \in {"init", "loop"}) =>
          \A i \in 1..Len(suites) :
             /\ Cardinality(Flagged(heap', suites[i].list)) = 1
             /\ Flagged(heap, suites[i].list) = {} => Flagged(heap', suites[i].list) = {1}]_vars

\* C3 (determinism): a run with an explicit seed (one that is not negative)
\* that follows, in the same process, on the registry as it was left and
\* with the runner defaults of that run, a run with the same seed executes
\* the same sequence of units.
Determinism ==
    (pc = "done" /\ prev.valid /\ ~prev.defaults_changed
        /\ seed_arg >= 0 /\ prev.seed = seed_arg) =>
        Units(trace) = Units(prev.trace)

\* C4 as claimed (seed policy): std::random_device is read exactly when the
\* seed argument is absent (-1 by default) or negative.
SeedPolicyNegative ==
    runs > 0 => (used_device <=> seed_arg < 0)

\* C4 as amended (seed policy): std::random_device is read exactly when the
\* seed argument is -1, the default of an absent one; with any other seed,
\* other negative ones included, the generator starts from that seed, so that
\* after n draws its state is the n-th term of the seed's sequence.
SeedPolicy ==
    runs > 0 =>
        /\ used_device <=> seed_arg = -1
        /\ ~used_device => rnd = MinstdIterate(MinstdSeed(seed_arg), draws)

SeedPolicyWitness ==
    /\ pc = "done"
    /\ seed_arg = -2
    /\ ~used_device
    /\ draws > 2

\* C5 (aggregation): in a report of run_benchmarks every entry of every
\* benchmark counts the benchmark's states of the entry's dimension, and its
\* average total time is the cost of one iteration of that benchmark's
\* procedure times the dimension.
AggregationCorrect ==
    pc = "done" =>
        \A i \in 1..Len(rpt) : \A j \in 1..Len(rpt[i].benchmarks) :
            LET b == Owner(i, j)
                data == rpt[i].benchmarks[j].data
            IN  \A n \in 1..Len(data) :
                   /\ data[n].samples =
                         Cardinality({m \in 1..Len(b.states) :
                                         b.states[m].iterations = data[n].dimension})
                   /\ data[n].samples > 0
                   /\ data[n].total_time_ns = ProcCost(b.proc) * data[n].dimension

\* Two benchmarks whose units were interleaved, one of them with two samples
\* of a workload size.
AggregationWitness ==
    /\ pc = "done"
    /\ Len(trace) >= 3
    /\ \E n \in 2..(Len(trace) - 1) :
          /\ trace[n].b # trace[n - 1].b
          /\ trace[n].b # trace[n + 1].b
    /\ \E i \in 1..Len(rpt) : \E j \in 1..Len(rpt[i].benchmarks) :
          \E n \in 1..Len(rpt[i].benchmarks[j].data) :
             rpt[i].benchmarks[j].data[n].samples >= 2

\* C6 (iteration protocol): a range-for over a state of N > 0 iterations
\* starts the timer, then runs the body, and the timer is stopped once, after
\* the N-th body and before the loop is left, so that duration_ns is the
\* time of exactly N bodies.
IterationOrder ==
    LET N == it_state.iterations
        nb == Cardinality({n \in 1..Len(it_events) : it_events[n] = "body"})
        stopped == it_pc = "exit"
    IN  (N > 0 /\ it_pc \notin {"idle", "new", "call"}) =>
           /\ it_pc # "aborted"
           /\ it_events = <<"start_timer">> \o [n \in 1..nb |-> "body"]
                            \o (IF stopped THEN <<"stop_timer">> ELSE <<>>)
           /\ nb <= N
           /\ it_counter = N - nb + (IF it_pc = "incr" THEN 1 ELSE 0)
           /\ stopped => /\ nb = N
                         /\ it_state.duration_ns = N * it_cost
                         /\ it_state.start + it_state.duration_ns = the_time

IterationWitness ==
    /\ it_pc = "exit"
    /\ it_state.iterations = 2
    /\ it_state.start > 0

\* The report is as run_benchmarks returned it.
Untouched == rpt = MakeReport(suites, heap, default_state_iterations)

\* C7 (self-ratio): in both views of a report of run_benchmarks every row of
\* a benchmark flagged as baseline shows the placeholder in the ratio column.
SelfRatio ==
    (pc = "done" /\ Untouched /\ out.view \in {"detailed", "concise"}) =>
        \A n \in 1..Len(out.rows) : out.rows[n].star => out.rows[n].ratio = Placeholder

\* Averages that the report's benchmark bm has for workload size w.
Totals(bm, w) ==
    {bm.data[n].total_time_ns : n \in {m \in 1..Len(bm.data) : bm.data[m].dimension = w}}

\* The benchmarks of a report's suite that are flagged and have data for w.
BaselinesAt(s, w) ==
    {l \in 1..Len(s.benchmarks) : s.benchmarks[l].is_baseline /\ Totals(s.benchmarks[l], w) # {}}

\* C8 (detailed-view ratio): the detailed view has one row per entry of the
\* report; the row shows the entry's average total time, and for a benchmark
\* that is not flagged, in a suite whose baseline (the first flagged
\* benchmark with data for that size) has data for the row's workload size,
\* the ratio of the row's average to the baseline's average at that size.
DetailedRatio ==
    (pc = "done" /\ out.view = "detailed" /\ out.status = "ok") =>
        /\ Len(out.rows) =
              SumSeq([i \in 1..Len(rpt) |->
                        SumSeq([j \in 1..Len(rpt[i].benchmarks) |->
                                  Len(rpt[i].benchmarks[j].data)])])
        /\ \A n \in 1..Len(out.rows) :
              LET row == out.rows[n]
              IN  \E i \in 1..Len(rpt) : \E j \in 1..Len(rpt[i].benchmarks) :
                     LET bm == rpt[i].benchmarks[j]
                         bases == BaselinesAt(rpt[i], row.dim)
                     IN  /\ rpt[i].name = row.suite
                         /\ bm.name = row.name
                         /\ \E t \in Totals(bm, row.dim) :
                               /\ row.total_ms = Fixed3(t, 1000000)
                               /\ row.ns_op = t \div row.dim
                               /\ (~bm.is_baseline /\ bases # {}) =>
                                     LET l == CHOOSE x \in bases : \A y \in bases : x <= y
                                     IN  \E u \in Totals(rpt[i].benchmarks[l], row.dim) :
                                            row.ratio = [kind |-> "number", milli |-> Fixed3(t, u)]

\* The scenario: A the baseline at 100 ns per iteration, B at 300 ns, one
\* sample of 10 iterations each: 0.001 ms and 0.003 ms, B's ratio 3.000.
DetailedScenario ==
    /\ pc = "done"
    /\ out.view = "detailed"
    /\ Len(out.rows) = 2
    /\ out.rows[1].name = 1 /\ out.rows[1].star /\ out.rows[1].dim = 10
    /\ out.rows[1].total_ms = 1 /\ out.rows[1].ns_op = 100
    /\ out.rows[1].ratio = Placeholder
    /\ out.rows[2].name = 2 /\ ~out.rows[2].star /\ out.rows[2].dim = 10
    /\ out.rows[2].total_ms = 3 /\ out.rows[2].ns_op = 300
    /\ out.rows[2].ratio = [kind |-> "number", milli |-> 3000]
    /\ rpt[1].benchmarks[1].data = <<[dimension |-> 10, samples |-> 1, total_time_ns |-> 1000]>>
    /\ rpt[1].benchmarks[2].data = <<[dimension |-> 10, samples |-> 1, total_time_ns |-> 3000]>>

\* The suites of a report none of whose benchmarks is flagged.
Baseless(r) == {i \in 1..Len(r) : FirstBaseline(r[i].benchmarks) = 0}

\* What C9 promises of to_text_concise on a report with a baseless suite.
StopsAtBaseless ==
    /\ out.status = "assert"
    /\ \A n \in 1..Len(out.rows) :
          \A i \in Baseless(rpt) : out.rows[n].suite # rpt[i].name

\* C9 as claimed (concise view without baseline): to_text_concise on a report
\* with a suite in which no benchmark is flagged ends in the failed
\* assertion and writes no row of that suite.
ConciseNeedsBaseline ==
    (pc = "done" /\ out.view = "concise" /\ Baseless(rpt) # {}) => StopsAtBaseless

\* Rendering suite i of the report divides by a sum of workload sizes that
\* is zero (lines 394 and 414).
FaultsAt(r, i) ==
    \E j \in 1..Len(r[i].benchmarks) : TotalIterations(r[i].benchmarks[j]) = 0

\* C9 as amended: in a build with PICOBENCH_DEBUG defined, to_text_concise on
\* a report with a suite in which no benchmark is flagged writes no row of
\* that suite and does not end normally: it ends in the failed assertion
\* when it reaches that suite, which it does unless the division of an
\* earlier suite faulted (in any other build the assertion is compiled out
\* and the null baseline is dereferenced).
ConciseNeedsBaselineDebug ==
    (pc = "done" /\ debug /\ out.view = "concise" /\ Baseless(rpt) # {}) =>
        /\ \A n \in 1..Len(out.rows) :
              \A i \in Baseless(rpt) : out.rows[n].suite # rpt[i].name
        /\ \/ out.status = "assert"
           \/ /\ out.status = "crashed"
              /\ \E i \in 1..Len(rpt) :
                    /\ \A l \in Baseless(rpt) : i < l
                    /\ FaultsAt(rpt, i)

ConciseAssertWitness ==
    /\ pc = "done"
    /\ debug
    /\ out.view = "concise"
    /\ out.status = "assert"
    /\ Baseless(rpt) # {}

\* Benchmark id is in the suite of key `key`.
InSuite(ss, key, id) == \E i \in 1..Len(ss) : ss[i].name = key /\ id \in Range(ss[i].list)

\* C10 (current suite): a newly registered benchmark is placed in the suite
\* that is current, the one declared last, and in no other, and no step
\* moves a registered benchmark to another suite; so benchmarks registered
\* under different current suites are never in the same suite.
CurrentSuitePlacement ==
    [][/\ Len(heap') = Len(heap) + 1 =>
             \A key \in SuiteNames \cup {Null} :
                InSuite(suites', key, Len(heap')) <=> key = current_suite
       /\ \A id \in 1..Len(heap) : \A key \in SuiteNames \cup {Null} :
             InSuite(suites', key, id) <=> InSuite(suites, key, id)]_vars

\* One benchmark registered after PICOBENCH_SUITE("X"), the next after
\* PICOBENCH_SUITE("Y").
TwoSuitesWitness ==
    /\ Len(heap) = 2
    /\ InSuite(suites, "X", 1)
    /\ InSuite(suites, "Y", 2)
    /\ current_suite = "Y"

\* The names of the benchmarks of a suite of the report, in report order.
ReportNames(suite) == [j \in 1..Len(suite.benchmarks) |-> suite.benchmarks[j].name]

\* C11 (registration order): a registration appends the new benchmark at the
\* end of the current suite's collection and leaves the benchmarks that were
\* there in their order, and a report lists the benchmarks of every suite in
\* that order, whatever the seed and the order in which the units ran.
RegistrationOrder ==
    [][/\ Len(heap') = Len(heap) + 1 =>
             LET i == SuiteIndex(suites, current_suite)
                 k == SuiteIndex(suites', current_suite)
             IN  suites'[k].list = (IF i = 0 THEN <<>> ELSE suites[i].list) \o <<Len(heap')>>
       /\ (pc = "loop" /\ pc' = "done") =>
             /\ Len(rpt') = Len(suites)
             /\ \A i \in 1..Len(suites) :
                   /\ ReportNames(rpt'[i]) = suites[i].list
                   /\ \A j \in 1..(Len(suites[i].list) - 1) :
                         suites[i].list[j] < suites[i].list[j + 1]]_vars

\* A report of a suite of two benchmarks whose first executed unit belongs
\* to the benchmark registered second.
RegistrationOrderWitness ==
    /\ pc = "done"
    /\ \E i \in 1..Len(rpt) : ReportNames(rpt[i]) = <<1, 2>>
    /\ trace # <<>>
    /\ trace[1].b = 2
    /\ \E n \in 1..Len(trace) : trace[n].b = 1

\* C12 (empty registry): run_benchmarks on a registry without benchmarks
\* draws no random number and calls no procedure, ends in a report without
\* suites, and to_text and to_text_concise on that report write no row and
\* end normally.
EmptyRegistry ==
    (heap = <<>> /\ runs > 0) =>
        /\ pc \in {"loop", "done"}
        /\ benchmarks = <<>>
        /\ trace = <<>>
        /\ draws = 0
        /\ rpt = <<>>
        /\ out.rows = <<>>
        /\ out.status = "ok"

\* to_text_concise has been called on the report of an empty registry.
EmptyRegistryWitness ==
    /\ heap = <<>>
    /\ runs > 0
    /\ pc = "done"
    /\ out.view = "concise"

\* The states of benchmark b from its cursor to the end of its queue.
Pending(b) == Len(heap[b].states) - heap[b].istate + 1

\* C13 (scheduler termination): while the interleaving loop runs, a
\* benchmark is in the working set exactly when its cursor is before the
\* end of its queue, the units executed so far and the pending ones add up
\* to the sum of the queue lengths, and the loop ends neither in a fault nor
\* with more or fewer steps than that sum.
SchedulerTermination ==
    /\ pc = "loop" =>
          /\ \A b \in 1..Len(heap) :
                b \in Range(benchmarks) <=> heap[b].istate <= Len(heap[b].states)
          /\ \A b \in 1..Len(heap) : Pending(b) >= 0
          /\ Len(trace) + SumSeq([b \in 1..Len(heap) |-> Pending(b)])
                = SumSeq([b \in 1..Len(heap) |-> Len(heap[b].states)])
    /\ pc = "done" =>
          Len(trace) = SumSeq([b \in 1..Len(heap) |-> Len(heap[b].states)])
    /\ pc = "crashed" => benchmarks = <<>>

\* C14 (sample-count assertion): when the interleaving loop has ended and
\* the report is generated, every entry of every benchmark's data counts as
\* many samples as the benchmark is configured with, so the assertion of
\* line 615 holds; and so it is in every report.
SampleCountAssertion ==
    /\ (pc = "loop" /\ benchmarks = <<>>) => SamplesAsserted(heap, default_state_iterations)
    /\ pc = "done" =>
          \A i \in 1..Len(rpt) : \A j \in 1..Len(rpt[i].benchmarks) :
             \A n \in 1..Len(rpt[i].benchmarks[j].data) :
                rpt[i].benchmarks[j].data[n].samples = heap[suites[i].list[j]].samples

\* C15 (baseline in every group): in a report of run_benchmarks every
\* workload-size group of the problem-space view of a suite holds an entry
\* of a benchmark flagged as baseline, and no row of to_text shows the
\* "???" marker.
BaselineInEveryGroup ==
    (pc = "done" /\ Untouched) =>
        /\ \A i \in 1..Len(rpt) :
              LET view == get_problem_space_view(rpt[i])
              IN  \A n \in 1..Len(view) : FirstBaseline(view[n].second) # 0
        /\ out.view = "detailed" =>
              \A n \in 1..Len(out.rows) : out.rows[n].ratio # Unknown

\* C16 (unit isolation): a step of the interleaving loop that invokes a
\* procedure passes it the state at the cursor of the picked benchmark, a
\* state of that benchmark's queue; the step changes the timing of that state
\* and moves that cursor by one, takes the benchmark out of the working set
\* exactly when the cursor reaches the end, and leaves every other state and
\* every other benchmark as they were.
UnitIsolation ==
    [][(pc = "loop" /\ Len(trace') = Len(trace) + 1) =>
          LET u == trace'[Len(trace')]
              b == u.b
              k == u.at
          IN  /\ b \in Range(benchmarks)
              /\ k = heap[b].istate
              /\ k \in 1..Len(heap[b].states)
              /\ u.iterations = heap[b].states[k].iterations
              /\ heap'[b].istate = k + 1
              /\ Len(heap'[b].states) = Len(heap[b].states)
              /\ heap'[b].states[k].iterations = heap[b].states[k].iterations
              /\ \A j \in 1..Len(heap[b].states) :
                    j # k => heap'[b].states[j] = heap[b].states[j]
              /\ \A c \in 1..Len(heap) : c # b => heap'[c] = heap[c]
              /\ Range(benchmarks') =
                    (IF k = Len(heap[b].states) THEN Range(benchmarks) \ {b}
                     ELSE Range(benchmarks))]_vars

\* The workload sizes and the sample count the configuration gives
\* benchmark b: its own when set, the runner's default otherwise.
EffectiveIterations(b) ==
    IF b.state_iterations # <<>> THEN b.state_iterations ELSE default_state_iterations

EffectiveSamples(b) == IF b.own_samples # 0 THEN b.own_samples ELSE default_samples

\* C17 (default resolution): in every run the initialize step resolves the
\* benchmark's sample count to its own value when one was set and to the
\* runner's default of that moment otherwise; every state generated is of a
\* size of the benchmark's own list, or of the runner's default list when it
\* has none, and is generated within the resolved number of samples; and the
\* report of the run has one data entry per element of that same list.
DefaultResolution ==
    [][/\ (pc = "init" /\ pc' = "fill") =>
             heap'[benchmarks[ib]].samples = EffectiveSamples(heap[benchmarks[ib]])
       /\ (pc = "fill" /\ pc' = "fill" /\ draws' = draws + 1) =>
             LET b == heap[benchmarks[ib]]
                 list == EffectiveIterations(b)
             IN  /\ ii \in 1..Len(list)
                 /\ isample < EffectiveSamples(b)
                 /\ Len(heap'[benchmarks[ib]].states) = Len(b.states) + 1
                 /\ \E k \in 1..(Len(b.states) + 1) :
                       heap'[benchmarks[ib]].states = InsertAt(b.states, k, NewState(list[ii]))
       /\ (pc = "loop" /\ pc' = "done") =>
             \A i \in 1..Len(suites) : \A j \in 1..Len(suites[i].list) :
                LET list == EffectiveIterations(heap[suites[i].list[j]])
                    data == rpt'[i].benchmarks[j].data
                IN  /\ Len(data) = Len(list)
                    /\ \A n \in 1..Len(list) : data[n].dimension = list[n]]_vars

\* C18 (randomized placement): an insertion of the expansion takes one
\* number x from the generator and puts the new state into the queue of the
\* benchmark being expanded at index x % (n + 1), one of 0..n, where n is the
\* length of that queue; the states that were in the queue keep their
\* relative order, and the queues of the other benchmarks do not change.
RandomizedPlacement ==
    [][(pc = "fill" /\ pc' = "fill" /\ draws' = draws + 1) =>
          LET b == benchmarks[ib]
              n == Len(heap[b].states)
              index == rnd' % (n + 1)
          IN  /\ rnd' = MinstdNext(rnd)
              /\ index \in 0..n
              /\ Len(heap'[b].states) = n + 1
              /\ heap'[b].states[index + 1] =
                    NewState(StateIterations(heap[b], default_state_iterations)[ii])
              /\ RemoveAt(heap'[b].states, index + 1) = heap[b].states
              /\ \A c \in 1..Len(heap) : c # b => heap'[c] = heap[c]]_vars

\* The second benchmark is being expanded in a first run, one of its states
\* was put in front of a state generated before it, and the first
\* benchmark's queue stands as it was filled.
RandomizedPlacementWitness ==
    /\ pc = "fill"
    /\ runs = 1
    /\ ib = 2
    /\ heap[benchmarks[1]].states # <<>>
    /\ heap[benchmarks[2]].state_iterations = <<>>
    /\ \E k \in 1..(Len(heap[benchmarks[2]].states) - 1) :
          heap[benchmarks[2]].states[k].iterations > heap[benchmarks[2]].states[k + 1].iterations

\* C19 (iteration-count guards): in a build with PICOBENCH_DEBUG no state of
\* zero or fewer iterations gets past its constructor, so that none is in a
\* benchmark's queue or is passed to a procedure; while a procedure's loop
\* runs over a state the iterator's counter is within 0..iterations, and the
\* protocol ends in a failed assertion only for such a state.
IterationGuards ==
    debug =>
        /\ it_pc \in {"call", "test", "body", "incr", "exit"} =>
              /\ it_state.iterations > 0
              /\ it_counter \in 0..it_state.iterations
        /\ it_pc = "aborted" => it_state.iterations <= 0
        /\ \A b \in 1..Len(heap) : \A k \in 1..Len(heap[b].states) :
              heap[b].states[k].iterations > 0
        /\ \A n \in 1..Len(trace) :
              trace[n].at <= Len(heap[trace[n].b].states) => trace[n].iterations > 0

\* The expansion of a benchmark configured with iterations({0}) has ended
\* in the constructor's assertion, before any procedure was called.
IterationGuardsWitness ==
    /\ debug
    /\ pc = "aborted"
    /\ trace = <<>>
    /\ ib \in 1..Len(benchmarks)
    /\ heap[benchmarks[ib]].state_iterations = <<0>>
    /\ heap[benchmarks[ib]].states = <<>>

\* C20 (valid cursor at every pick): whenever the interleaving loop is about
\* to pick, every benchmark of the working set has its cursor on a state of
\* its queue, one that this run has not executed; and every procedure call
\* of the run was made on such a state.
ValidCursor ==
    /\ pc = "loop" =>
          \A i \in 1..Len(benchmarks) :
             heap[benchmarks[i]].istate \in 1..Len(heap[benchmarks[i]].states)
    /\ \A n \in 1..Len(trace) :
          /\ trace[n].at \in 1..Len(heap[trace[n].b].states)
          /\ \A m \in 1..Len(trace) :
                (m # n /\ trace[m].b = trace[n].b) => trace[m].at # trace[n].at

\* The number of states one run generates for benchmark b.
UnitsPerRun(b) ==
    Len(EffectiveIterations(b)) * (IF EffectiveSamples(b) > 0 THEN EffectiveSamples(b) ELSE 0)

\* C21 (repeated runs): in every run on the registry and the runner defaults
\* as they were, the first and any later one, the interleaving loop starts
\* with, per benchmark, the states of that run only, none of them timed; the
\* run calls each benchmark's procedure once per workload size and sample;
\* and every entry of its report counts the samples of that run, the sample
\* count for each element of the list that equals the entry's size.
RepeatedRuns ==
    (runs >= 1 /\ ~prev.defaults_changed) =>
        /\ (pc = "loop" /\ trace = <<>>) =>
              \A b \in 1..Len(heap) :
                 /\ Len(heap[b].states) = UnitsPerRun(heap[b])
                 /\ \A k \in 1..Len(heap[b].states) : heap[b].states[k].duration_ns = 0
        /\ pc = "done" =>
              \A b \in 1..Len(heap) :
                 Cardinality({n \in 1..Len(trace) : trace[n].b = b}) = UnitsPerRun(heap[b])
        /\ (pc = "done" /\ Untouched) =>
              \A i \in 1..Len(rpt) : \A j \in 1..Len(rpt[i].benchmarks) :
                 \A n \in 1..Len(rpt[i].benchmarks[j].data) :
                    LET d == rpt[i].benchmarks[j].data[n]
                    IN  d.samples = Mult(EffectiveIterations(Owner(i, j)), d.dimension)
                                      * EffectiveSamples(Owner(i, j))
====
